---- MODULE Spec2Model ----
(***************************************************************************)
(* Model of the kine charm (lib/charm.py): the KineCharm event handlers,   *)
(* the EtcdProvides and TlsRequires relation helpers, the framework's      *)
(* stored state and the relation data bags the handlers read and write.    *)
(*                                                                         *)
(* Conventions                                                             *)
(*  - a Python dict is a function whose DOMAIN is the set of its keys;      *)
(*  - an optional value (None or a value v) is <<>> or <<v>>;              *)
(*  - a handler is an operator from a world record to a world record; a    *)
(*    raised exception is the world's err field, and a hook that raises    *)
(*    commits nothing (the framework commits stored state and relation     *)
(*    settings only when the hook returns);                                *)
(*  - a relation is [units, data]: the remote units in the order the       *)
(*    framework iterates them, and each unit's data bag (the local unit's  *)
(*    included);                                                           *)
(*  - JSON text is a sequence of lexical tokens, parsed and printed by     *)
(*    JsonLoads and JsonDumps.                                             *)
(***************************************************************************)
EXTENDS Integers, Sequences, FiniteSets, TLC

VARIABLES
    unitName,      \* self.framework.model.unit.name
    state,         \* KineCharm.state (StoredState): dict of attributes
    clusterRel,    \* framework.model.get_relation('cluster'): None or a relation
    certRels,      \* framework.model.relations['certificates']
    dbRels,        \* framework.model.relations['db']
    calls,         \* the subprocess.run calls of the last handler run
    snapConf,      \* the configuration last given to `snap set kine`
    status,        \* framework.model.unit.status
    last           \* the last step: handler or environment change, and outcome

vars == <<unitName, state, clusterRel, certRels, dbRels, calls, snapConf,
          status, last>>

(***************************************************************************)
(* Bounds of the model                                                     *)
(***************************************************************************)
MaxPeers == 2
MaxDbRels == 2
MaxOrdinal == 17

(***************************************************************************)
(* Dicts, optionals, strings                                               *)
(***************************************************************************)
EmptyDict == [f \in {} |-> ""]

Put(d, k, v) == [f \in (DOMAIN d) \cup {k} |-> IF f = k THEN v ELSE d[f]]

None == <<>>

Some(v) == <<v>>

Char(s, i) == SubSeq(s, i, i)

Digits == "0123456789"

IndexOf(s, c) ==
    IF \E i \in 1..Len(s) : Char(s, i) = c
    THEN CHOOSE i \in 1..Len(s) :
             /\ Char(s, i) = c
             /\ \A j \in 1..(i - 1) : Char(s, j) # c
    ELSE 0

RECURSIVE StrSplit(_, _)
StrSplit(s, sep) ==
    LET i == IndexOf(s, sep)
    IN  IF i = 0 THEN <<s>>
        ELSE <<SubSeq(s, 1, i - 1)>> \o StrSplit(SubSeq(s, i + 1, Len(s)), sep)

RECURSIVE StrJoin(_, _)
StrJoin(sep, parts) ==
    IF parts = <<>> THEN ""
    ELSE IF Len(parts) = 1 THEN parts[1]
    ELSE parts[1] \o sep \o StrJoin(sep, Tail(parts))

StrReplace(s, old, new) == StrJoin(new, StrSplit(s, old))

RECURSIVE DigitsValue(_)
DigitsValue(s) ==
    IF s = "" THEN 0
    ELSE 10 * DigitsValue(SubSeq(s, 1, Len(s) - 1))
         + (IndexOf(Digits, Char(s, Len(s))) - 1)

\* int(s) for an unsigned decimal literal; anything else raises ValueError
ParseInt(s) ==
    IF s # "" /\ \A i \in 1..Len(s) : IndexOf(Digits, Char(s, i)) # 0
    THEN [err |-> "", val |-> DigitsValue(s)]
    ELSE [err |-> "ValueError", val |-> 0]

(***************************************************************************)
(* KineCharm.get_unit_id, get_peer_identity, get_dqlite_endpoint           *)
(***************************************************************************)
\* get_unit_id wrapping at 10 instead of 9
GetUnitIdMod10(name) ==
    LET parts == StrSplit(name, "/")
    IN  IF Len(parts) < 2 THEN [err |-> "IndexError", val |-> 0]
        ELSE LET n == ParseInt(parts[2])
             IN  IF n.err # "" THEN n
                 ELSE [err |-> "", val |-> (n.val % 10) + 1]

GetUnitId(name) ==
    LET parts == StrSplit(name, "/")
    IN  IF Len(parts) < 2 THEN [err |-> "IndexError", val |-> 0]
        ELSE LET n == ParseInt(parts[2])
             IN  IF n.err # "" THEN n
                 ELSE [err |-> "", val |-> (n.val % 9) + 1]

GetPeerIdentity(name, address) ==
    LET id == GetUnitId(name)
    IN  IF id.err # "" THEN [err |-> id.err, val |-> ""]
        ELSE [err |-> "",
              val |-> ToString(id.val) \o ":" \o address \o ":918" \o ToString(id.val)]

GetDqliteEndpoint(peers) == "dqlite://?peer=" \o StrJoin("&peer=", peers)

(***************************************************************************)
(* json.loads and json.dumps(sort_keys=True) over token sequences.  A JSON *)
(* value is [t |-> "str", s], [t |-> "arr", items] or, for a dict in       *)
(* insertion order, [t |-> "obj", keys, vals].                             *)
(***************************************************************************)
Quote(s) == "\"" \o s \o "\""

IsStrTok(tok) == Len(tok) >= 2 /\ Char(tok, 1) = "\"" /\ Char(tok, Len(tok)) = "\""

Unquote(tok) == SubSeq(tok, 2, Len(tok) - 1)

JStr(s) == [t |-> "str", s |-> s]

JArr(items) == [t |-> "arr", items |-> items]

JObj(keys, vals) == [t |-> "obj", keys |-> keys, vals |-> vals]

KeyIndex(keys, k) ==
    IF \E i \in 1..Len(keys) : keys[i] = k
    THEN CHOOSE i \in 1..Len(keys) : keys[i] = k
    ELSE 0

ObjHas(o, k) == KeyIndex(o.keys, k) # 0

ObjGet(o, k) == o.vals[KeyIndex(o.keys, k)]

\* d[k] = v on a dict: an existing key keeps its position, a new one goes last
ObjSet(o, k, v) ==
    IF ObjHas(o, k)
    THEN JObj(o.keys, [o.vals EXCEPT ![KeyIndex(o.keys, k)] = v])
    ELSE JObj(Append(o.keys, k), Append(o.vals, v))

ParseFail == [err |-> "JSONDecodeError", val |-> JStr(""), rest |-> <<>>]

RECURSIVE ParseValue(_), ParseMembers(_, _), ParseElements(_, _)
ParseValue(toks) ==
    IF toks = <<>> THEN ParseFail
    ELSE IF IsStrTok(toks[1])
    THEN [err |-> "", val |-> JStr(Unquote(toks[1])), rest |-> Tail(toks)]
    ELSE IF toks[1] = "{"
    THEN IF Len(toks) >= 2 /\ toks[2] = "}"
         THEN [err |-> "", val |-> JObj(<<>>, <<>>), rest |-> SubSeq(toks, 3, Len(toks))]
         ELSE ParseMembers(Tail(toks), JObj(<<>>, <<>>))
    ELSE IF toks[1] = "["
    THEN IF Len(toks) >= 2 /\ toks[2] = "]"
         THEN [err |-> "", val |-> JArr(<<>>), rest |-> SubSeq(toks, 3, Len(toks))]
         ELSE ParseElements(Tail(toks), <<>>)
    ELSE ParseFail

\* after "{" or ",": string ":" value, then "," or "}"
ParseMembers(toks, obj) ==
    IF Len(toks) < 2 \/ ~IsStrTok(toks[1]) \/ toks[2] # ":" THEN ParseFail
    ELSE LET v == ParseValue(SubSeq(toks, 3, Len(toks)))
             o == ObjSet(obj, Unquote(toks[1]), v.val)
         IN  IF v.err # "" \/ v.rest = <<>> THEN ParseFail
             ELSE IF v.rest[1] = "}"
             THEN [err |-> "", val |-> o, rest |-> Tail(v.rest)]
             ELSE IF v.rest[1] = "," THEN ParseMembers(Tail(v.rest), o)
             ELSE ParseFail

\* after "[" or ",": value, then "," or "]"
ParseElements(toks, items) ==
    LET v == ParseValue(toks)
    IN  IF v.err # "" \/ v.rest = <<>> THEN ParseFail
        ELSE IF v.rest[1] = "]"
        THEN [err |-> "", val |-> JArr(Append(items, v.val)), rest |-> Tail(v.rest)]
        ELSE IF v.rest[1] = "," THEN ParseElements(Tail(v.rest), Append(items, v.val))
        ELSE ParseFail

JsonLoads(text) ==
    LET r == ParseValue(text)
    IN  IF r.err # "" \/ r.rest # <<>>
        THEN [err |-> "JSONDecodeError", val |-> JStr("")]
        ELSE [err |-> "", val |-> r.val]

\* code point order of the characters the keys are written in
Alphabet == "0123456789_abcdefghijklmnopqrstuvwxyz"

RECURSIVE StrLess(_, _)
StrLess(a, b) ==
    IF b = "" THEN FALSE
    ELSE IF a = "" THEN TRUE
    ELSE LET ra == IndexOf(Alphabet, Char(a, 1))
             rb == IndexOf(Alphabet, Char(b, 1))
         IN  IF ra # rb THEN ra < rb
             ELSE StrLess(SubSeq(a, 2, Len(a)), SubSeq(b, 2, Len(b)))

RECURSIVE SortedKeys(_)
SortedKeys(keys) ==
    IF keys = <<>> THEN <<>>
    ELSE LET m == CHOOSE i \in 1..Len(keys) :
                      \A j \in 1..Len(keys) : ~StrLess(keys[j], keys[i])
         IN  <<keys[m]>> \o
             SortedKeys(SubSeq(keys, 1, m - 1) \o SubSeq(keys, m + 1, Len(keys)))

RECURSIVE JoinTokens(_)
JoinTokens(parts) ==
    IF parts = <<>> THEN <<>>
    ELSE IF Len(parts) = 1 THEN parts[1]
    ELSE parts[1] \o <<",">> \o JoinTokens(Tail(parts))

RECURSIVE JsonDumps(_)
JsonDumps(v) ==
    IF v.t = "str" THEN <<Quote(v.s)>>
    ELSE IF v.t = "arr"
    THEN <<"[">> \o JoinTokens([i \in 1..Len(v.items) |-> JsonDumps(v.items[i])])
         \o <<"]">>
    ELSE LET ks == SortedKeys(v.keys)
         IN  <<"{">>
             \o JoinTokens([i \in 1..Len(ks) |->
                               <<Quote(ks[i]), ":">> \o JsonDumps(ObjGet(v, ks[i]))])
             \o <<"}">>

\* bool(v) of a parsed value
Truthy(v) ==
    IF v.t = "str" THEN v.s # ""
    ELSE IF v.t = "arr" THEN v.items # <<>>
    ELSE v.keys # <<>>

(***************************************************************************)
(* The world a handler runs in                                             *)
(***************************************************************************)
World ==
    [state |-> state, cluster |-> clusterRel, certs |-> certRels, dbs |-> dbRels,
     calls |-> <<>>, snapConf |-> snapConf, status |-> status, err |-> ""]

Raise(w, e) == [w EXCEPT !.err = e]

\* the assignment landing in every unit's bag of the relation
RelationSetAll(rel, unit, key, value) ==
    [rel EXCEPT !.data = [u \in DOMAIN @ |-> Put(@[u], key, value)]]

\* relation.data[unit][key] = value
RelationSet(rel, unit, key, value) ==
    [rel EXCEPT !.data = [@ EXCEPT ![unit] = Put(@, key, value)]]

(***************************************************************************)
(* KineCharm handlers: cluster membership and the dqlite endpoint.  Each   *)
(* handler binds the world it is given once, as w, and maps it to the      *)
(* world it leaves; a world that already carries an exception passes       *)
(* through unchanged.                                                      *)
(***************************************************************************)
Only(S) == CHOOSE x \in S : TRUE

\* on_config_changed without the comparison of line 48
OnConfigChangedAlways(w0) == Only({
    IF w.err # "" THEN w
    ELSE IF "peers" \notin DOMAIN w.state \/ "endpoint" \notin DOMAIN w.state
    THEN Raise(w, "AttributeError")
    ELSE LET endpoint == GetDqliteEndpoint(w.state["peers"])
             id == GetUnitId(unitName)
         IN  IF id.err # ""
             THEN Raise([w EXCEPT !.state = Put(@, "endpoint", Some(endpoint))],
                        id.err)
             ELSE [w EXCEPT
                      !.state = Put(@, "endpoint", Some(endpoint)),
                      !.calls = @ \o <<"snap set", "snap restart">>,
                      !.snapConf = Some([endpoint |-> endpoint,
                                         dqlite_id |-> id.val]),
                      !.status = "active"]
    : w \in {w0}})

OnConfigChanged(w0) == Only({
    IF w.err # "" THEN w
    ELSE IF "peers" \notin DOMAIN w.state \/ "endpoint" \notin DOMAIN w.state
    THEN Raise(w, "AttributeError")
    ELSE LET endpoint == GetDqliteEndpoint(w.state["peers"])
             id == GetUnitId(unitName)
         IN  IF Some(endpoint) # w.state["endpoint"]
             THEN IF id.err # ""
                  THEN Raise([w EXCEPT !.state = Put(@, "endpoint", Some(endpoint))],
                             id.err)
                  ELSE [w EXCEPT
                           !.state = Put(@, "endpoint", Some(endpoint)),
                           !.calls = @ \o <<"snap set", "snap restart">>,
                           !.snapConf = Some([endpoint |-> endpoint,
                                              dqlite_id |-> id.val]),
                           !.status = "active"]
             ELSE [w EXCEPT !.status = "active"]
    : w \in {w0}})

\* on_install, lines 30-31
InstallPeers(w0) == Only({
    IF w.err # "" \/ "peers" \in DOMAIN w.state THEN w
    ELSE LET id == GetPeerIdentity(unitName, "0.0.0.0")
         IN  IF id.err # "" THEN Raise(w, id.err)
             ELSE [w EXCEPT !.state = Put(@, "peers", <<id.val>>)]
    : w \in {w0}})

\* on_install resetting the stored endpoint without the hasattr test
InstallEndpointAlways(w0) == Only({
    IF w.err # "" THEN w
    ELSE [w EXCEPT !.state = Put(@, "endpoint", None)]
    : w \in {w0}})

\* on_install, lines 32-33
InstallEndpoint(w0) == Only({
    IF w.err # "" \/ "endpoint" \in DOMAIN w.state THEN w
    ELSE [w EXCEPT !.state = Put(@, "endpoint", None)]
    : w \in {w0}})

\* on_install, lines 34-35
InstallSnap(w0) == Only({
    IF w.err # "" THEN w
    ELSE [w EXCEPT !.calls = @ \o <<"snap install", "snap refresh">>]
    : w \in {w0}})

\* on_install running the snap commands before it initialises the state
OnInstallSnapFirst(w0) ==
    OnConfigChanged(InstallEndpoint(InstallPeers(InstallSnap(w0))))

OnInstall(w0) == OnConfigChanged(InstallSnap(InstallEndpoint(InstallPeers(w0))))

\* on_cluster_relation_joined announcing the address of the self entry
OnClusterRelationJoinedWildcard(w0) == Only({
    IF w.err # "" THEN w
    ELSE LET rel == w.cluster[1]
             id == GetPeerIdentity(unitName, "0.0.0.0")
         IN  IF id.err # "" THEN Raise(w, id.err)
             ELSE [w EXCEPT
                      !.state = Put(@, "my_identity", id.val),
                      !.cluster = Some(RelationSet(rel, unitName,
                                                   "peer_identity", id.val))]
    : w \in {w0}})

\* event.relation is the cluster relation
OnClusterRelationJoined(w0) == Only({
    IF w.err # "" THEN w
    ELSE LET rel == w.cluster[1]
             own == rel.data[unitName]
         IN  IF "ingress-address" \notin DOMAIN own THEN Raise(w, "KeyError")
             ELSE LET id == GetPeerIdentity(unitName, own["ingress-address"])
                  IN  IF id.err # "" THEN Raise(w, id.err)
                      ELSE [w EXCEPT
                               !.state = Put(@, "my_identity", id.val),
                               !.cluster = Some(RelationSet(rel, unitName,
                                                            "peer_identity", id.val))]
    : w \in {w0}})

\* the loop with break in place of continue
RECURSIVE AppendPeersBreak(_, _, _)
AppendPeersBreak(peers, units, data) ==
    IF units = <<>> THEN peers
    ELSE IF "peer_identity" \notin DOMAIN data[units[1]] THEN peers
    ELSE AppendPeersBreak(Append(peers, data[units[1]]["peer_identity"]),
                          Tail(units), data)

\* the loop skipping an identity whose node id is already in the list
RECURSIVE AppendPeersDedup(_, _, _)
AppendPeersDedup(peers, units, data) ==
    IF units = <<>> THEN peers
    ELSE IF "peer_identity" \notin DOMAIN data[units[1]]
    THEN AppendPeersDedup(peers, Tail(units), data)
    ELSE IF \E i \in 1..Len(peers) :
                StrSplit(peers[i], ":")[1]
                    = StrSplit(data[units[1]]["peer_identity"], ":")[1]
    THEN AppendPeersDedup(peers, Tail(units), data)
    ELSE AppendPeersDedup(Append(peers, data[units[1]]["peer_identity"]),
                          Tail(units), data)

\* the loop of on_cluster_relation_changed over event.relation.units
RECURSIVE AppendPeers(_, _, _)
AppendPeers(peers, units, data) ==
    IF units = <<>> THEN peers
    ELSE IF "peer_identity" \notin DOMAIN data[units[1]]
    THEN AppendPeers(peers, Tail(units), data)
    ELSE AppendPeers(Append(peers, data[units[1]]["peer_identity"]), Tail(units), data)

\* on_cluster_relation_changed appending to the stored list, line 78 left out
RebuildPeersInPlace(w0) == Only({
    IF w.err # "" THEN w
    ELSE IF "peers" \notin DOMAIN w.state THEN Raise(w, "AttributeError")
    ELSE LET rel == w.cluster[1]
         IN  [w EXCEPT !.state =
                 Put(@, "peers", AppendPeers(w.state["peers"], rel.units, rel.data))]
    : w \in {w0}})

\* on_cluster_relation_changed with the self entry appended after the peers
RebuildPeersSelfLast(w0) == Only({
    IF w.err # "" THEN w
    ELSE LET rel == w.cluster[1]
             id == GetPeerIdentity(unitName, "0.0.0.0")
         IN  IF id.err # "" THEN Raise(w, id.err)
             ELSE [w EXCEPT !.state =
                      Put(@, "peers",
                          Append(AppendPeers(<<>>, rel.units, rel.data), id.val))]
    : w \in {w0}})

\* on_cluster_relation_changed, lines 78-82
RebuildPeers(w0) == Only({
    IF w.err # "" THEN w
    ELSE LET rel == w.cluster[1]
             id == GetPeerIdentity(unitName, "0.0.0.0")
         IN  IF id.err # "" THEN Raise(w, id.err)
             ELSE [w EXCEPT !.state =
                      Put(@, "peers", AppendPeers(<<id.val>>, rel.units, rel.data))]
    : w \in {w0}})

\* on_cluster_relation_changed comparing the endpoint before the rebuild
OnClusterRelationChangedStale(w0) == RebuildPeers(OnConfigChanged(w0))

OnClusterRelationChanged(w0) == OnConfigChanged(RebuildPeers(w0))

OnUpgradeCharm(w0) == Only({
    IF w.err # "" \/ w.cluster = None THEN w
    ELSE OnClusterRelationChanged(OnClusterRelationJoined(w))
    : w \in {OnInstall(w0)}})

(***************************************************************************)
(* EtcdProvides: the node's slot on every db relation                      *)
(***************************************************************************)
\* set_client_credentials replacing the node's data bag by the credentials
SetClientCredentialsReplace(w0, key, cert, ca) == Only({
    IF w.err # "" THEN w
    ELSE [w EXCEPT !.dbs =
             [i \in 1..Len(w.dbs) |->
                 [w.dbs[i] EXCEPT !.data[unitName] =
                     [f \in {"client_key", "client_cert", "client_ca"} |->
                         IF f = "client_key" THEN key
                         ELSE IF f = "client_cert" THEN cert ELSE ca]]]]
    : w \in {w0}})

SetClientCredentials(w0, key, cert, ca) == Only({
    IF w.err # "" THEN w
    ELSE [w EXCEPT !.dbs =
             [i \in 1..Len(w.dbs) |->
                 RelationSet(RelationSet(RelationSet(w.dbs[i],
                     unitName, "client_key", key),
                     unitName, "client_cert", cert),
                     unitName, "client_ca", ca)]]
    : w \in {w0}})

\* set_connection_string writing the first relation only
SetConnectionStringFirst(w0, connection_string, version) == Only({
    IF w.err # "" \/ w.dbs = <<>> THEN w
    ELSE [w EXCEPT !.dbs[1] =
             RelationSet(RelationSet(w.dbs[1],
                 unitName, "connection_string", connection_string),
                 unitName, "version", version)]
    : w \in {w0}})

SetConnectionString(w0, connection_string, version) == Only({
    IF w.err # "" THEN w
    ELSE [w EXCEPT !.dbs =
             [i \in 1..Len(w.dbs) |->
                 RelationSet(RelationSet(w.dbs[i],
                     unitName, "connection_string", connection_string),
                     unitName, "version", version)]]
    : w \in {w0}})

(***************************************************************************)
(* TlsRequires: requests to and answers from the certificates relations    *)
(***************************************************************************)
SansValue(sans) == JArr([i \in 1..Len(sans) |-> JStr(sans[i])])

\* request_client_cert writing the request to every certificates relation
RequestClientCertEvery(w0, cn, sans) == Only({
    IF w.err # "" \/ w.certs = <<>> THEN w
    ELSE LET own == w.certs[1].data[unitName]
             text == IF "client_cert_requests" \in DOMAIN own
                     THEN own["client_cert_requests"]
                     ELSE <<"{", "}">>
             requests == JsonLoads(text)
         IN  IF requests.err # "" THEN Raise(w, requests.err)
             ELSE IF requests.val.t # "obj" THEN Raise(w, "TypeError")
             ELSE [w EXCEPT !.certs =
                      [i \in 1..Len(w.certs) |->
                          RelationSet(w.certs[i], unitName, "client_cert_requests",
                              JsonDumps(ObjSet(requests.val, cn,
                                               JObj(<<"sans">>, <<SansValue(sans)>>))))]]
    : w \in {w0}})

RequestClientCert(w0, cn, sans) == Only({
    IF w.err # "" \/ w.certs = <<>> THEN w
    ELSE LET relation == w.certs[1]
             own == relation.data[unitName]
             text == IF "client_cert_requests" \in DOMAIN own
                     THEN own["client_cert_requests"]
                     ELSE <<"{", "}">>
             requests == JsonLoads(text)
         IN  IF requests.err # "" THEN Raise(w, requests.err)
             ELSE IF requests.val.t # "obj" THEN Raise(w, "TypeError")
             ELSE [w EXCEPT !.certs[1] =
                      RelationSet(relation, unitName, "client_cert_requests",
                          JsonDumps(ObjSet(requests.val, cn,
                                           JObj(<<"sans">>, <<SansValue(sans)>>))))]
    : w \in {w0}})

\* the data bags the two nested loops visit: relations, then relation.units
RECURSIVE ProviderBags(_)
ProviderBags(rels) ==
    IF rels = <<>> THEN <<>>
    ELSE [i \in 1..Len(rels[1].units) |-> rels[1].data[rels[1].units[i]]]
         \o ProviderBags(Tail(rels))

\* the scan returning the last non-empty ca instead of the first
RECURSIVE LastCa(_)
LastCa(bags) ==
    IF bags = <<>> THEN None
    ELSE IF LastCa(Tail(bags)) # None THEN LastCa(Tail(bags))
    ELSE IF "ca" \in DOMAIN bags[1] /\ bags[1]["ca"] # ""
    THEN Some(bags[1]["ca"])
    ELSE None

RECURSIVE FirstCa(_)
FirstCa(bags) ==
    IF bags = <<>> THEN None
    ELSE IF "ca" \in DOMAIN bags[1] /\ bags[1]["ca"] # ""
    THEN Some(bags[1]["ca"])
    ELSE FirstCa(Tail(bags))

RootCaCert(rels) == FirstCa(ProviderBags(rels))

ProcessedField(name) == StrReplace(name, "/", "_") \o ".processed_client_requests"

\* the scan returning the last entry of the map instead of the first
RECURSIVE FirstCertsLastEntry(_, _)
FirstCertsLastEntry(bags, field) ==
    IF bags = <<>> THEN [err |-> "", val |-> None]
    ELSE IF field \notin DOMAIN bags[1] THEN FirstCertsLastEntry(Tail(bags), field)
    ELSE IF bags[1][field] = <<>> THEN FirstCertsLastEntry(Tail(bags), field)
    ELSE LET certs_data == JsonLoads(bags[1][field])
         IN  IF certs_data.err # "" THEN [err |-> certs_data.err, val |-> None]
             ELSE IF ~Truthy(certs_data.val) THEN FirstCertsLastEntry(Tail(bags), field)
             ELSE IF certs_data.val.t # "obj"
             THEN [err |-> "AttributeError", val |-> None]
             ELSE [err |-> "",
                   val |-> Some(certs_data.val.vals[Len(certs_data.val.vals)])]

RECURSIVE FirstCerts(_, _)
FirstCerts(bags, field) ==
    IF bags = <<>> THEN [err |-> "", val |-> None]
    ELSE IF field \notin DOMAIN bags[1] THEN FirstCerts(Tail(bags), field)
    ELSE IF bags[1][field] = <<>> THEN FirstCerts(Tail(bags), field)
    ELSE LET certs_data == JsonLoads(bags[1][field])
         IN  IF certs_data.err # "" THEN [err |-> certs_data.err, val |-> None]
             ELSE IF ~Truthy(certs_data.val) THEN FirstCerts(Tail(bags), field)
             ELSE IF certs_data.val.t # "obj"
             THEN [err |-> "AttributeError", val |-> None]
             ELSE [err |-> "", val |-> Some(certs_data.val.vals[1])]

ClientCerts(rels) == FirstCerts(ProviderBags(rels), ProcessedField(unitName))

\* client_certs[k], with client_certs a parsed value that is truthy
Subscript(v, k) ==
    IF v.t # "obj" THEN [err |-> "TypeError", val |-> ""]
    ELSE IF ~ObjHas(v, k) THEN [err |-> "KeyError", val |-> ""]
    ELSE IF ObjGet(v, k).t # "str" THEN [err |-> "TypeError", val |-> ""]
    ELSE [err |-> "", val |-> ObjGet(v, k).s]

(***************************************************************************)
(* KineCharm handlers: consumers and certificates                          *)
(***************************************************************************)
\* event.relation is w.dbs[r]
OnDbRelationChanged(w0, r) == Only({
    IF w.err # "" THEN w
    ELSE LET own == w.dbs[r].data[unitName]
         IN  IF "ingress-address" \notin DOMAIN own THEN Raise(w, "KeyError")
             ELSE SetConnectionString(w,
                      "http://" \o own["ingress-address"] \o ":2379", "3.")
    : w \in {w0}})

OnCertificatesRelationJoined(w0) == RequestClientCert(w0, "cn", <<>>)

OnCertificatesRelationChanged(w0) == Only({
    IF w.err # "" THEN w
    ELSE LET root_ca_cert == RootCaCert(w.certs)
             client_certs == ClientCerts(w.certs)
         IN  IF client_certs.err # "" THEN Raise(w, client_certs.err)
             ELSE IF root_ca_cert = None \/ client_certs.val = None THEN w
             ELSE IF ~Truthy(client_certs.val[1]) THEN w
             ELSE LET key == Subscript(client_certs.val[1], "key")
                      cert == Subscript(client_certs.val[1], "cert")
                  IN  IF key.err # "" THEN Raise(w, key.err)
                      ELSE IF cert.err # "" THEN Raise(w, cert.err)
                      ELSE SetClientCredentials(w, key.val, cert.val, root_ca_cert[1])
    : w \in {w0}})

(***************************************************************************)
(* Steps.  A handler that raises leaves stored state and relation data as  *)
(* they were; what it ran through subprocess before raising stays done.    *)
(***************************************************************************)
Commit(step, arg, w0) ==
    \E w \in {w0} :
        /\ last' = [step |-> step, arg |-> arg, err |-> w.err]
        /\ calls' = w.calls
        /\ snapConf' = w.snapConf
        /\ status' = w.status
        /\ IF w.err = ""
           THEN /\ state' = w.state
                /\ clusterRel' = w.cluster
                /\ certRels' = w.certs
                /\ dbRels' = w.dbs
           ELSE UNCHANGED <<state, clusterRel, certRels, dbRels>>
        /\ UNCHANGED unitName

Install ==
    \E w \in {OnInstall(World)} : Commit("install", <<>>, w)

UpgradeCharm ==
    \E w \in {OnUpgradeCharm(World)} : Commit("upgrade_charm", <<>>, w)

ClusterRelationJoined ==
    /\ clusterRel # None
    /\ Commit("cluster_relation_joined", <<>>, OnClusterRelationJoined(World))

ClusterRelationChanged ==
    /\ clusterRel # None
    /\ Commit("cluster_relation_changed", <<>>, OnClusterRelationChanged(World))

(***************************************************************************)
(* The environment of the cluster relation: the relation is established,   *)
(* remote peers join, announce their identity (they run this charm) and    *)
(* depart.                                                                 *)
(***************************************************************************)
LocalNames == {"app/0", "app/13"}

LocalAddress == "10.0.0.100"

RemoteUnits == {"app/" \o ToString(i) : i \in 1..MaxPeers}

RemoteAddress(u) == "10.0.0." \o StrSplit(u, "/")[2]

Environment(step) ==
    /\ last' = [step |-> step, arg |-> <<>>, err |-> ""]
    /\ UNCHANGED <<unitName, state, calls, snapConf, status>>

InsertAt(seq, i, x) == SubSeq(seq, 1, i - 1) \o <<x>> \o SubSeq(seq, i, Len(seq))

RemoveFrom(seq, x) == SelectSeq(seq, LAMBDA y : y # x)

ClusterEstablished ==
    /\ clusterRel = None
    /\ clusterRel' = Some([units |-> <<>>,
                           data |-> [u \in {unitName} |->
                                        [f \in {"ingress-address"} |-> LocalAddress]]])
    /\ Environment("cluster_established")
    /\ UNCHANGED <<certRels, dbRels>>

PeerJoins(u, i) ==
    /\ clusterRel # None
    /\ LET rel == clusterRel[1]
       IN  /\ \A j \in 1..Len(rel.units) : rel.units[j] # u
           /\ i \in 1..(Len(rel.units) + 1)
           /\ clusterRel' = Some([units |-> InsertAt(rel.units, i, u),
                                  data |-> Put(rel.data, u,
                                               [f \in {"ingress-address"} |->
                                                   RemoteAddress(u)])])
    /\ Environment("peer_joins")
    /\ UNCHANGED <<certRels, dbRels>>

PeerAnnounces(u) ==
    /\ clusterRel # None
    /\ LET rel == clusterRel[1]
       IN  /\ \E j \in 1..Len(rel.units) : rel.units[j] = u
           /\ "peer_identity" \notin DOMAIN rel.data[u]
           /\ clusterRel' = Some(RelationSet(rel, u, "peer_identity",
                                    GetPeerIdentity(u, rel.data[u]["ingress-address"]).val))
    /\ Environment("peer_announces")
    /\ UNCHANGED <<certRels, dbRels>>

PeerDeparts(u) ==
    /\ clusterRel # None
    /\ LET rel == clusterRel[1]
       IN  /\ \E j \in 1..Len(rel.units) : rel.units[j] = u
           /\ clusterRel' = Some([units |-> RemoveFrom(rel.units, u),
                                  data |-> [v \in (DOMAIN rel.data) \ {u} |->
                                               rel.data[v]]])
    /\ Environment("peer_departs")
    /\ UNCHANGED <<certRels, dbRels>>

(***************************************************************************)
(* Consumer and certificates steps                                         *)
(***************************************************************************)
DbRelationChanged(r) ==
    /\ r \in 1..Len(dbRels)
    /\ Commit("db_relation_changed", <<r>>, OnDbRelationChanged(World, r))

CertificatesRelationJoined ==
    /\ certRels # <<>>
    /\ Commit("certificates_relation_joined", <<>>, OnCertificatesRelationJoined(World))

CertificatesRelationChanged ==
    /\ certRels # <<>>
    /\ Commit("certificates_relation_changed", <<>>, OnCertificatesRelationChanged(World))

\* a call of TlsRequires.request_client_cert by the charm
RequestClientCertificate(cn, sans) ==
    \E w \in {RequestClientCert(World, cn, sans)} :
        Commit("request_client_cert", <<cn, sans>>, w)

(***************************************************************************)
(* The environment of the db and certificates relations: consumers attach, *)
(* CA providers attach, publish their root CA and answer the requests.     *)
(***************************************************************************)
CommonNames == {"cn", "b"}

SansChoices == {<<>>, <<"alt">>}

CaUnits == {"ca/0"}

CaValues == {"CA-A", "CA-B"}

\* {"cn": {"cert": "CERT", "key": "KEY"}}
GoodProcessed ==
    <<"{", Quote("cn"), ":", "{", Quote("cert"), ":", Quote("CERT"), ",",
      Quote("key"), ":", Quote("KEY"), "}", "}">>

\* what a provider unit may hold in the processed field: "{}", "{" and an answer
ProcessedTexts == { <<"{", "}">>, <<"{">>, GoodProcessed }

DbAddress(r) == "10.0." \o ToString(r) \o ".100"

\* the r-th db relation as the framework presents it when a consumer attaches
DbRelation(r) ==
    [units |-> <<"client/0">>,
     data |-> [u \in {unitName, "client/0"} |->
                  [f \in {"ingress-address"} |->
                      IF u = unitName THEN DbAddress(r)
                      ELSE "10.0." \o ToString(r) \o ".200"]]]

ConsumerAttaches ==
    /\ Len(dbRels) < MaxDbRels
    /\ dbRels' = Append(dbRels, DbRelation(Len(dbRels) + 1))
    /\ Environment("consumer_attaches")
    /\ UNCHANGED <<clusterRel, certRels>>

\* the charm assumes a single provider relation (line 143)
CaRelationEstablished ==
    /\ certRels = <<>>
    /\ certRels' = Append(certRels,
           [units |-> <<>>, data |-> [u \in {unitName} |-> EmptyDict]])
    /\ Environment("ca_relation_established")
    /\ UNCHANGED <<clusterRel, dbRels>>

CaUnitJoins(r, u) ==
    /\ r \in 1..Len(certRels)
    /\ \A j \in 1..Len(certRels[r].units) : certRels[r].units[j] # u
    /\ certRels' = [certRels EXCEPT ![r] =
           [units |-> Append(@.units, u), data |-> Put(@.data, u, EmptyDict)]]
    /\ Environment("ca_unit_joins")
    /\ UNCHANGED <<clusterRel, dbRels>>

CaPublishesRoot(r, u, ca) ==
    /\ r \in 1..Len(certRels)
    /\ \E j \in 1..Len(certRels[r].units) : certRels[r].units[j] = u
    /\ certRels' = [certRels EXCEPT ![r] = RelationSet(@, u, "ca", ca)]
    /\ Environment("ca_publishes_root")
    /\ UNCHANGED <<clusterRel, dbRels>>

CaProcesses(r, u, text) ==
    /\ r \in 1..Len(certRels)
    /\ \E j \in 1..Len(certRels[r].units) : certRels[r].units[j] = u
    /\ certRels' = [certRels EXCEPT ![r] =
           RelationSet(@, u, ProcessedField(unitName), text)]
    /\ Environment("ca_processes")
    /\ UNCHANGED <<clusterRel, dbRels>>

Init ==
    /\ unitName \in LocalNames
    /\ state = EmptyDict
    /\ clusterRel = None
    /\ certRels = <<>>
    /\ dbRels = <<>>
    /\ calls = <<>>
    /\ snapConf = None
    /\ status = "maintenance"
    /\ last = [step |-> "start", arg |-> <<>>, err |-> ""]

NextCluster ==
    \/ Install
    \/ UpgradeCharm
    \/ ClusterRelationJoined
    \/ ClusterRelationChanged
    \/ ClusterEstablished
    \/ \E u \in RemoteUnits, i \in 1..MaxPeers : PeerJoins(u, i)
    \/ \E u \in RemoteUnits : PeerAnnounces(u)
    \/ \E u \in RemoteUnits : PeerDeparts(u)

SpecCluster == Init /\ [][NextCluster]_vars

NextTls ==
    \/ \E r \in 1..MaxDbRels : DbRelationChanged(r)
    \/ CertificatesRelationJoined
    \/ CertificatesRelationChanged
    \/ \E cn \in CommonNames, sans \in SansChoices : RequestClientCertificate(cn, sans)
    \/ ConsumerAttaches
    \/ CaRelationEstablished
    \/ \E r \in {1}, u \in CaUnits : CaUnitJoins(r, u)
    \/ \E r \in {1}, u \in CaUnits, ca \in CaValues : CaPublishesRoot(r, u, ca)
    \/ \E r \in {1}, u \in CaUnits, text \in ProcessedTexts :
           CaProcesses(r, u, text)

SpecTls == Init /\ [][NextTls]_vars

(***************************************************************************)
(* The handlers alone, in an environment that is already attached: the     *)
(* cluster relation with its peers (some announced), one CA provider and   *)
(* the consumers.                                                          *)
(***************************************************************************)
PeerSeq == [i \in 1..MaxPeers |-> "app/" \o ToString(i)]

PeerBag(u, announced) ==
    IF u \in announced
    THEN [f \in {"ingress-address", "peer_identity"} |->
             IF f = "ingress-address" THEN RemoteAddress(u)
             ELSE GetPeerIdentity(u, RemoteAddress(u)).val]
    ELSE [f \in {"ingress-address"} |-> RemoteAddress(u)]

AttachedCluster(announced) ==
    [units |-> PeerSeq,
     data |-> [u \in RemoteUnits \cup {unitName} |->
                  IF u = unitName THEN [f \in {"ingress-address"} |-> LocalAddress]
                  ELSE PeerBag(u, announced)]]

CaBags(name) ==
    { EmptyDict,
      [f \in {"ca"} |-> "CA-A"],
      [f \in {ProcessedField(name)} |-> GoodProcessed],
      [f \in {"ca", ProcessedField(name)} |->
          IF f = "ca" THEN "CA-A" ELSE GoodProcessed] }

InitAttached ==
    /\ unitName \in LocalNames
    /\ state = EmptyDict
    /\ \E announced \in SUBSET RemoteUnits :
           clusterRel = Some(AttachedCluster(announced))
    /\ \E bag \in CaBags(unitName) :
           certRels = <<[units |-> <<"ca/0">>,
                         data |-> [u \in {unitName, "ca/0"} |->
                                      IF u = unitName THEN EmptyDict ELSE bag]]>>
    /\ dbRels = [r \in 1..MaxDbRels |-> DbRelation(r)]
    /\ calls = <<>>
    /\ snapConf = None
    /\ status = "maintenance"
    /\ last = [step |-> "start", arg |-> <<>>, err |-> ""]

NextHandlers ==
    \/ Install
    \/ UpgradeCharm
    \/ ClusterRelationJoined
    \/ ClusterRelationChanged
    \/ \E r \in 1..MaxDbRels : DbRelationChanged(r)
    \/ CertificatesRelationJoined
    \/ CertificatesRelationChanged

SpecHandlers == InitAttached /\ [][NextHandlers]_vars

(***************************************************************************)
(* The membership handlers over the unit names: every ordinal up to        *)
(* MaxOrdinal, and names without a numeric ordinal.  The cluster relation  *)
(* is attached, with remote peers whose ordinals wrap onto the same id     *)
(* (app/19 and app/28 give 2) and onto the id of app/0 and app/9 (app/27   *)
(* gives 1).                                                               *)
(***************************************************************************)
ValidNames == {"app/" \o ToString(k) : k \in 0..MaxOrdinal}

MalformedNames == {"app", "app/", "app/x"}

WrappingPeers == <<"app/19", "app/28", "app/27">>

WrappingCluster(announced) ==
    [units |-> WrappingPeers,
     data |-> [u \in {WrappingPeers[i] : i \in 1..Len(WrappingPeers)} \cup {unitName} |->
                  IF u = unitName THEN [f \in {"ingress-address"} |-> LocalAddress]
                  ELSE PeerBag(u, announced)]]

InitIdentity ==
    /\ unitName \in ValidNames \cup MalformedNames
    /\ state = EmptyDict
    /\ \E announced \in SUBSET {WrappingPeers[i] : i \in 1..Len(WrappingPeers)} :
           clusterRel = Some(WrappingCluster(announced))
    /\ certRels = <<>>
    /\ dbRels = <<>>
    /\ calls = <<>>
    /\ snapConf = None
    /\ status = "maintenance"
    /\ last = [step |-> "start", arg |-> <<>>, err |-> ""]

NextIdentity ==
    \/ Install
    \/ UpgradeCharm
    \/ ClusterRelationJoined
    \/ ClusterRelationChanged

SpecIdentity == InitIdentity /\ [][NextIdentity]_vars

(***************************************************************************)
(* The certificates handlers over the provider topologies: no provider     *)
(* relation, one with two units, or that one and a second with one unit,   *)
(* every provider unit holding one of the data bags of ProviderBagChoices. *)
(***************************************************************************)
\* {"b": {"cert": "CERT-B", "key": "KEY-B"}, "cn": {"cert": "CERT", "key": "KEY"}}
TwoProcessed ==
    <<"{", Quote("b"), ":", "{", Quote("cert"), ":", Quote("CERT-B"), ",",
      Quote("key"), ":", Quote("KEY-B"), "}", ",",
      Quote("cn"), ":", "{", Quote("cert"), ":", Quote("CERT"), ",",
      Quote("key"), ":", Quote("KEY"), "}", "}">>

ProviderBagChoices(name) ==
    { EmptyDict,
      [f \in {"ca"} |-> ""],
      [f \in {"ca"} |-> "CA-A"],
      [f \in {"ca", ProcessedField(name)} |-> IF f = "ca" THEN "CA-B" ELSE <<>>],
      [f \in {ProcessedField(name)} |-> <<"{", "}">>],
      [f \in {ProcessedField(name)} |-> GoodProcessed],
      [f \in {"ca", ProcessedField(name)} |->
          IF f = "ca" THEN "CA-B" ELSE TwoProcessed] }

\* the units of each provider relation, in the order of model.relations
ProviderShapes ==
    { <<>>,
      << <<"ca/0", "ca/1">> >>,
      << <<"ca/0", "ca/1">>, <<"vault/0">> >> }

ProviderUnits(shape) == UNION {{shape[i][j] : j \in 1..Len(shape[i])} : i \in 1..Len(shape)}

InitProviders ==
    /\ unitName \in LocalNames
    /\ state = EmptyDict
    /\ clusterRel = None
    /\ \E shape \in ProviderShapes :
           \E bags \in [ProviderUnits(shape) -> ProviderBagChoices(unitName)] :
               certRels = [i \in 1..Len(shape) |->
                              [units |-> shape[i],
                               data |-> [u \in {shape[i][j] : j \in 1..Len(shape[i])}
                                                  \cup {unitName} |->
                                            IF u = unitName THEN EmptyDict ELSE bags[u]]]]
    /\ dbRels = [r \in 1..MaxDbRels |-> DbRelation(r)]
    /\ calls = <<>>
    /\ snapConf = None
    /\ status = "maintenance"
    /\ last = [step |-> "start", arg |-> <<>>, err |-> ""]

NextProviders ==
    \/ CertificatesRelationJoined
    \/ CertificatesRelationChanged
    \/ \E cn \in {"b"} : RequestClientCertificate(cn, <<"alt">>)

SpecProviders == InitProviders /\ [][NextProviders]_vars

(***************************************************************************)
(* The publishing handlers with consumers attaching over time: one CA unit *)
(* that has answered the node's request and may replace its root CA and    *)
(* its answer.                                                             *)
(***************************************************************************)
InitConsumers ==
    /\ unitName \in LocalNames
    /\ state = EmptyDict
    /\ clusterRel = None
    /\ certRels = <<[units |-> <<"ca/0">>,
                     data |-> [u \in {unitName, "ca/0"} |->
                                  IF u = unitName THEN EmptyDict
                                  ELSE [f \in {"ca", ProcessedField(unitName)} |->
                                           IF f = "ca" THEN "CA-A" ELSE GoodProcessed]]]>>
    /\ dbRels = <<>>
    /\ calls = <<>>
    /\ snapConf = None
    /\ status = "maintenance"
    /\ last = [step |-> "start", arg |-> <<>>, err |-> ""]

NextConsumers ==
    \/ \E r \in 1..MaxDbRels : DbRelationChanged(r)
    \/ CertificatesRelationChanged
    \/ ConsumerAttaches
    \/ \E r \in {1}, u \in CaUnits, ca \in CaValues : CaPublishesRoot(r, u, ca)
    \/ \E r \in {1}, u \in CaUnits, text \in {GoodProcessed, TwoProcessed} :
           CaProcesses(r, u, text)

SpecConsumers == InitConsumers /\ [][NextConsumers]_vars

(***************************************************************************)
(* Properties                                                              *)
(***************************************************************************)
Count(seq, x) == Cardinality({i \in DOMAIN seq : seq[i] = x})

Installed == "peers" \in DOMAIN state /\ "endpoint" \in DOMAIN state

\* the endpoint stored when a handler starts; on_install stores None if none is
PrevEndpoint == IF "endpoint" \in DOMAIN state THEN state["endpoint"] ELSE None

SelfEntry == GetPeerIdentity(unitName, "0.0.0.0").val

\* the peer_identity values visible on the cluster relation, in unit order
Announced(rel) ==
    LET us == SelectSeq(rel.units, LAMBDA u : "peer_identity" \in DOMAIN rel.data[u])
    IN  [i \in 1..Len(us) |-> rel.data[us[i]]["peer_identity"]]

\* C2: in every handler run the reconfiguration (snap set and snap restart)
\* happens exactly when the endpoint built from the current membership
\* differs from the stored one; otherwise nothing is configured or restarted
\* and the stored endpoint stays.  An upgrade runs the comparison twice:
\* on the stored membership, then on the rebuilt one.
C2_ReconfigureIffChanged ==
    [][ /\ (last'.err = "" /\ last'.step \in {"install", "cluster_relation_changed"}) =>
              LET built == Some(GetDqliteEndpoint(state'["peers"]))
                  n == IF built # PrevEndpoint THEN 1 ELSE 0
              IN  /\ Count(calls', "snap set") = n
                  /\ Count(calls', "snap restart") = n
                  /\ state'["endpoint"] = built
                  /\ n = 0 => /\ state'["endpoint"] = PrevEndpoint
                              /\ snapConf' = snapConf
        /\ (last'.err = "" /\ last'.step = "upgrade_charm") =>
              LET first == Some(GetDqliteEndpoint(
                               IF "peers" \in DOMAIN state THEN state["peers"]
                               ELSE <<SelfEntry>>))
                  second == Some(GetDqliteEndpoint(state'["peers"]))
                  n == (IF first # PrevEndpoint THEN 1 ELSE 0)
                       + (IF second # first THEN 1 ELSE 0)
              IN  /\ Count(calls', "snap set") = n
                  /\ Count(calls', "snap restart") = n
                  /\ n = 0 => /\ state'["endpoint"] = PrevEndpoint
                              /\ snapConf' = snapConf
      ]_vars

\* a membership-changed run restarted once, and a later run on an endpoint
\* already stored restarted nothing
C2_Witness ==
    /\ last.step = "cluster_relation_changed"
    /\ last.err = ""
    /\ calls = <<>>
    /\ Len(state["peers"]) >= 2
    /\ snapConf = Some([endpoint |-> GetDqliteEndpoint(state["peers"]),
                        dqlite_id |-> GetUnitId(unitName).val])

\* C3: running the membership-changed handler again while the visible peer
\* announcements are the same gives the same membership and the same endpoint
\* and restarts nothing: both when the run follows a run directly, and when
\* the stored membership and endpoint are those the visible announcements give.
C3_RerunIsNoOp ==
    [][ (/\ last'.step = "cluster_relation_changed"
         /\ \/ last.step \in {"cluster_relation_changed", "upgrade_charm"} /\ last.err = ""
            \/ /\ Installed
               /\ state["peers"] = <<SelfEntry>> \o Announced(clusterRel[1])
               /\ state["endpoint"] = Some(GetDqliteEndpoint(state["peers"])))
        => /\ last'.err = ""
           /\ state'["peers"] = state["peers"]
           /\ state'["endpoint"] = state["endpoint"]
           /\ Count(calls', "snap restart") = 0
           /\ snapConf' = snapConf
      ]_vars

\* app/0 has seen the announcements of app/1 and app/2, holds the 3-entry
\* membership, and its latest run on them restarted nothing
C3_Witness ==
    /\ unitName = "app/0"
    /\ last.step = "cluster_relation_changed"
    /\ last.err = ""
    /\ calls = <<>>
    /\ Installed
    /\ state["peers"] = <<"1:0.0.0.0:9181", "2:10.0.0.1:9182", "3:10.0.0.2:9183">>
    /\ state["endpoint"] =
           Some("dqlite://?peer=1:0.0.0.0:9181&peer=2:10.0.0.1:9182&peer=3:10.0.0.2:9183")

\* C4: once installed, the stored membership is never empty and its first
\* entry is the node's own identity bound to 0.0.0.0
C4_SelfFirst ==
    "peers" \in DOMAIN state =>
        /\ state["peers"] # <<>>
        /\ state["peers"][1] = SelfEntry
        /\ SelfEntry = ToString(GetUnitId(unitName).val) \o ":0.0.0.0:918"
                           \o ToString(GetUnitId(unitName).val)

C4_Witness ==
    /\ last.step = "cluster_relation_changed"
    /\ last.err = ""
    /\ Len(state["peers"]) >= 3
    /\ state["peers"][1] = SelfEntry

\* C5: after a membership-changed run the stored membership is the self
\* entry followed by the peer_identity of every visible remote unit that has
\* one, in unit order, whatever was stored before
C5_RebuiltFromVisible ==
    (last.step = "cluster_relation_changed" /\ last.err = "") =>
        state["peers"] = <<SelfEntry>> \o Announced(clusterRel[1])

\* two remote units are visible, only the second has announced itself
C5_Witness ==
    /\ last.step = "cluster_relation_changed"
    /\ last.err = ""
    /\ Len(clusterRel[1].units) = 2
    /\ "peer_identity" \notin DOMAIN clusterRel[1].data[clusterRel[1].units[1]]
    /\ Len(state["peers"]) = 2

FieldIs(d, k, v) == k \in DOMAIN d /\ d[k] = v

HandlerSteps ==
    {"install", "upgrade_charm", "cluster_relation_joined", "cluster_relation_changed",
     "db_relation_changed", "certificates_relation_joined",
     "certificates_relation_changed", "request_client_cert"}

\* the request map stored in the node's slot of the first certificates relation
StoredRequests ==
    IF certRels = <<>> \/ "client_cert_requests" \notin DOMAIN certRels[1].data[unitName]
    THEN JObj(<<>>, <<>>)
    ELSE JsonLoads(certRels[1].data[unitName]["client_cert_requests"]).val

\* C1: a request for a common name that is already in the stored request map
\* leaves the node's slot as it is (the first request for a name wins)
C1_FirstWriteWins ==
    [][ (/\ last'.step = "request_client_cert"
         /\ certRels # <<>>
         /\ ObjHas(StoredRequests, last'.arg[1]))
        => certRels' = certRels
      ]_vars

\* whether a root CA and a client certificate entry can be read for this node
CredentialsReadable ==
    /\ RootCaCert(certRels) # None
    /\ ClientCerts(certRels).err = ""
    /\ ClientCerts(certRels).val # None

HasCredentials(rel) ==
    {"client_key", "client_cert", "client_ca"} \subseteq DOMAIN rel.data[unitName]

\* C6: a credentials-changed run writes to the consumer slots only when both
\* the root CA and a client certificate entry are readable; when either is
\* missing it writes nothing and ends without error
C6_ReadinessGate ==
    [][ last'.step = "certificates_relation_changed" =>
           /\ dbRels' # dbRels => CredentialsReadable
           /\ ~CredentialsReadable => (last'.err = "" /\ dbRels' = dbRels)
      ]_vars

\* C7: a serialized map that does not parse counts as empty: the
\* credentials-changed handler and the request call never fail on one
C7_MalformedIsEmpty ==
    last.step \in {"certificates_relation_changed", "request_client_cert",
                   "certificates_relation_joined"}
        => last.err = ""

\* the remote units' data bags of every relation
RemoteBags(rel) == [u \in (DOMAIN rel.data) \ {unitName} |-> rel.data[u]]

RemoteSlots ==
    [cluster |-> IF clusterRel = None THEN <<>> ELSE <<RemoteBags(clusterRel[1])>>,
     certs |-> [i \in 1..Len(certRels) |-> RemoteBags(certRels[i])],
     dbs |-> [i \in 1..Len(dbRels) |-> RemoteBags(dbRels[i])]]

\* C8: no handler run changes a slot of a remote peer, of a CA provider unit
\* or of a consumer; only the node's own slots change
C8_OwnSlotOnly ==
    [][ last'.step \in HandlerSteps => RemoteSlots' = RemoteSlots ]_vars

\* the node has written its own slot on the cluster relation, on the
\* certificates relation and on every db relation
C8_Witness ==
    /\ "peer_identity" \in DOMAIN clusterRel[1].data[unitName]
    /\ "client_cert_requests" \in DOMAIN certRels[1].data[unitName]
    /\ \A i \in 1..Len(dbRels) :
           /\ "connection_string" \in DOMAIN dbRels[i].data[unitName]
           /\ HasCredentials(dbRels[i])
    /\ dbRels # <<>>
    /\ last.step = "certificates_relation_changed"

\* C9 as claimed: the connection string published to the consumers is the
\* endpoint built from the membership
C9_PublishesDqliteEndpoint ==
    (last.step = "db_relation_changed" /\ last.err = "" /\ Installed) =>
        \A i \in 1..Len(dbRels) :
            FieldIs(dbRels[i].data[unitName], "connection_string",
                    GetDqliteEndpoint(state["peers"]))

\* C9 as the code has it: after a consumer trigger on relation r, the node's
\* slot on every db relation holds "http://<its ingress-address on r>:2379"
\* and version "3."; the dqlite endpoint is not what is published
C9_PublishesHttpAddress ==
    (last.step = "db_relation_changed" /\ last.err = "") =>
        \A i \in 1..Len(dbRels) :
            /\ FieldIs(dbRels[i].data[unitName], "connection_string",
                       "http://" \o dbRels[last.arg[1]].data[unitName]["ingress-address"]
                                 \o ":2379")
            /\ FieldIs(dbRels[i].data[unitName], "version", "3.")
            /\ Installed => ~FieldIs(dbRels[i].data[unitName], "connection_string",
                                     GetDqliteEndpoint(state["peers"]))

\* installed with a rebuilt membership, and the trigger of the second
\* consumer relation has been handled
C9_Witness ==
    /\ last.step = "db_relation_changed"
    /\ last.err = ""
    /\ last.arg = <<2>>
    /\ Installed
    /\ Len(state["peers"]) >= 2
    /\ FieldIs(dbRels[1].data[unitName], "connection_string", "http://10.0.2.100:2379")

\* C10: with credentials available and already published to the consumers
\* attached so far, a consumer relation whose own trigger has been handled
\* carries client_key, client_cert and client_ca
C10_LateConsumerGetsCredentials ==
    (/\ last.step = "db_relation_changed"
     /\ last.err = ""
     /\ CredentialsReadable
     /\ \E i \in 1..Len(dbRels) : HasCredentials(dbRels[i]))
    => HasCredentials(dbRels[last.arg[1]])

\* C11: for every unit name "app/k" with k in 0..MaxOrdinal, get_unit_id gives
\* (k mod 9) + 1, a value in 1..9, the same as for "app/(k+9)"; it is the
\* dqlite id the handlers hand to snap set
C11_UnitIdWraps ==
    \A k \in 0..MaxOrdinal :
        unitName = "app/" \o ToString(k) =>
            LET id == GetUnitId(unitName)
            IN  /\ id = [err |-> "", val |-> (k % 9) + 1]
                /\ id.val \in 1..9
                /\ GetUnitId("app/" \o ToString(k + 9)) = id
                /\ snapConf # None => snapConf[1].dqlite_id = (k % 9) + 1

\* app/17 has been configured with dqlite id 9, the id of app/8
C11_Witness ==
    /\ unitName = "app/17"
    /\ snapConf # None
    /\ snapConf[1].dqlite_id = 9
    /\ GetUnitId("app/8").val = 9

\* the stored state, the relation data and the snap configuration
Durable == <<state, clusterRel, certRels, dbRels, snapConf>>

\* C12: with a unit name that has no numeric ordinal, install, membership
\* joined and membership changed each fail, and fail before changing
\* anything: at the raise the stored membership, the stored endpoint and all
\* relation data are what they were, and no subprocess has been run
C12_MalformedFailsClean ==
    [][ (/\ unitName \in MalformedNames
         /\ last'.step \in {"install", "cluster_relation_joined",
                            "cluster_relation_changed"})
        => /\ last'.err \in {"IndexError", "ValueError"}
           /\ calls' = <<>>
           /\ Durable' = Durable
           /\ \A w \in {OnInstall(World), OnClusterRelationJoined(World),
                        OnClusterRelationChanged(World)} :
                  /\ w.err \in {"IndexError", "ValueError"}
                  /\ w.state = state
                  /\ w.cluster = clusterRel
                  /\ w.certs = certRels
                  /\ w.dbs = dbRels
                  /\ w.calls = <<>>
                  /\ w.snapConf = snapConf
      ]_vars

\* the membership-changed handler of "app/x" has failed on int('x')
C12_Witness ==
    /\ unitName = "app/x"
    /\ last.step = "cluster_relation_changed"
    /\ last.err = "ValueError"
    /\ state = EmptyDict
    /\ "peer_identity" \notin DOMAIN clusterRel[1].data[unitName]

\* C13: the identity the node announces in its own cluster slot (and keeps
\* as my_identity) is "<id>:<its ingress-address>:<9180+id>", the self entry
\* of the stored membership is "<id>:0.0.0.0:<9180+id>", for each id in 1..9
C13_AnnouncesIngressAddress ==
    \A n \in 1..9 :
        GetUnitId(unitName) = [err |-> "", val |-> n] =>
            LET own == clusterRel[1].data[unitName]
                announced == ToString(n) \o ":" \o own["ingress-address"] \o ":"
                                 \o ToString(9180 + n)
            IN  /\ (last.step = "cluster_relation_joined" /\ last.err = "") =>
                       "peer_identity" \in DOMAIN own
                /\ "peer_identity" \in DOMAIN own =>
                       /\ own["peer_identity"] = announced
                       /\ FieldIs(state, "my_identity", announced)
                       /\ own["ingress-address"] # "0.0.0.0"
                /\ "peers" \in DOMAIN state =>
                       state["peers"][1] = ToString(n) \o ":0.0.0.0:"
                                               \o ToString(9180 + n)

\* a node with id 9 is installed and has announced itself
C13_Witness ==
    /\ last.step = "cluster_relation_joined"
    /\ last.err = ""
    /\ Installed
    /\ state["peers"][1] = "9:0.0.0.0:9189"
    /\ FieldIs(clusterRel[1].data[unitName], "peer_identity", "9:10.0.0.100:9189")

\* C14: after a membership-changed run the stored membership has one entry
\* for the node and one for every visible remote unit carrying peer_identity,
\* and the endpoint has as many peer= entries, also when ids coincide
C14_NoDedup ==
    (last.step = "cluster_relation_changed" /\ last.err = "") =>
        LET rel == clusterRel[1]
            carrying == {i \in 1..Len(rel.units) :
                            "peer_identity" \in DOMAIN rel.data[rel.units[i]]}
            n == Cardinality(carrying)
        IN  /\ Len(state["peers"]) = 1 + n
            /\ Len(StrSplit(state["endpoint"][1], "=")) = 1 + (1 + n)
            /\ \A i \in carrying :
                   \E j \in 2..Len(state["peers"]) :
                       state["peers"][j] = rel.data[rel.units[i]]["peer_identity"]

\* app/0 (id 1) lists app/19 and app/28 (both id 2) and app/27 (id 1)
C14_Witness ==
    /\ unitName = "app/0"
    /\ last.step = "cluster_relation_changed"
    /\ last.err = ""
    /\ state["peers"] = <<"1:0.0.0.0:9181", "2:10.0.0.19:9182",
                          "2:10.0.0.28:9182", "1:10.0.0.27:9181">>
    /\ state["endpoint"] = Some("dqlite://?peer=1:0.0.0.0:9181"
                                \o "&peer=2:10.0.0.19:9182&peer=2:10.0.0.28:9182"
                                \o "&peer=1:10.0.0.27:9181")

\* the node's own data bag on a relation, without one field
OwnWithout(rel, key) ==
    [k \in (DOMAIN rel.data[unitName]) \ {key} |-> rel.data[unitName][k]]

\* C15: a certificate request is written only to the node's own slot of the
\* first certificates relation, as the entry cn -> {sans} of the request
\* map; the slots on the other certificates relations, the provider units'
\* bags and everything else stay, and with no certificates relation the call
\* changes nothing and does not fail
C15_FirstProviderOnly ==
    [][ last'.step = "request_client_cert" =>
           /\ last'.err = ""
           /\ UNCHANGED <<state, clusterRel, dbRels, snapConf>>
           /\ Len(certRels') = Len(certRels)
           /\ \A i \in 2..Len(certRels) : certRels'[i] = certRels[i]
           /\ certRels # <<>> =>
                  /\ certRels'[1].units = certRels[1].units
                  /\ RemoteBags(certRels'[1]) = RemoteBags(certRels[1])
                  /\ OwnWithout(certRels'[1], "client_cert_requests")
                         = OwnWithout(certRels[1], "client_cert_requests")
                  /\ "client_cert_requests" \in DOMAIN certRels'[1].data[unitName]
                  /\ LET requests == JsonLoads(
                             certRels'[1].data[unitName]["client_cert_requests"])
                     IN  /\ requests.err = ""
                         /\ ObjHas(requests.val, last'.arg[1])
                         /\ ObjGet(requests.val, last'.arg[1])
                                = JObj(<<"sans">>, <<SansValue(last'.arg[2])>>)
      ]_vars

\* two provider relations are attached; the request for "b" is in the slot
\* of the first and the slot of the second is still empty
C15_Witness ==
    /\ last.step = "request_client_cert"
    /\ last.arg[1] = "b"
    /\ Len(certRels) = 2
    /\ "client_cert_requests" \in DOMAIN certRels[1].data[unitName]
    /\ certRels[2].data[unitName] = EmptyDict

\* the provider units in scan order: relation by relation, unit by unit
ScanPositions ==
    UNION {{<<r, j>> : j \in 1..Len(certRels[r].units)} : r \in 1..Len(certRels)}

ScanBefore(p, q) == p[1] < q[1] \/ (p[1] = q[1] /\ p[2] < q[2])

BagAt(p) == certRels[p[1]].data[certRels[p[1]].units[p[2]]]

HasCa(p) == "ca" \in DOMAIN BagAt(p) /\ BagAt(p)["ca"] # ""

\* C16: root_ca_cert is the ca of the first provider unit in scan order
\* whose ca is present and non-empty, and None when there is no such unit;
\* the ca published to the consumers is that value
C16_FirstNonEmptyCa ==
    /\ (\A p \in ScanPositions : ~HasCa(p)) =>
           /\ RootCaCert(certRels) = None
           /\ \A i \in 1..Len(dbRels) : ~HasCredentials(dbRels[i])
    /\ \A p \in ScanPositions :
           (HasCa(p) /\ \A q \in ScanPositions : ScanBefore(q, p) => ~HasCa(q)) =>
               /\ RootCaCert(certRels) = Some(BagAt(p)["ca"])
               /\ \A i \in 1..Len(dbRels) :
                      HasCredentials(dbRels[i]) =>
                          dbRels[i].data[unitName]["client_ca"] = BagAt(p)["ca"]

\* the first unit has an empty ca, the second "CA-A", a unit of the second
\* relation "CA-B": "CA-A" has been published
C16_Witness ==
    /\ last.step = "certificates_relation_changed"
    /\ Len(certRels) = 2
    /\ FieldIs(certRels[1].data["ca/0"], "ca", "")
    /\ FieldIs(certRels[1].data["ca/1"], "ca", "CA-A")
    /\ FieldIs(certRels[2].data["vault/0"], "ca", "CA-B")
    /\ FieldIs(dbRels[1].data[unitName], "client_ca", "CA-A")

\* the processed field of the unit at p is present, non-empty and parses to
\* a non-empty map
HasCerts(p) ==
    /\ ProcessedField(unitName) \in DOMAIN BagAt(p)
    /\ BagAt(p)[ProcessedField(unitName)] # <<>>
    /\ JsonLoads(BagAt(p)[ProcessedField(unitName)]).val.t = "obj"
    /\ JsonLoads(BagAt(p)[ProcessedField(unitName)]).val.keys # <<>>

\* the value of the entry the text of a map starts with
FirstEntry(text) ==
    IF text = GoodProcessed
    THEN JObj(<<"cert", "key">>, <<JStr("CERT"), JStr("KEY")>>)
    ELSE JObj(<<"cert", "key">>, <<JStr("CERT-B"), JStr("KEY-B")>>)

C18_EndpointMatchesMembership ==
    (/\ last.step \in {"install", "upgrade_charm", "cluster_relation_changed"}
     /\ last.err = "")
    => /\ Installed
       /\ state["endpoint"] = Some(GetDqliteEndpoint(state["peers"]))
       /\ snapConf = Some([endpoint |-> GetDqliteEndpoint(state["peers"]),
                           dqlite_id |-> GetUnitId(unitName).val])

\* an install run on a node that already holds a membership of three
C18_Witness ==
    /\ last.step = "install"
    /\ last.err = ""
    /\ Len(state["peers"]) = 3
    /\ snapConf # None
    /\ snapConf[1].endpoint = GetDqliteEndpoint(state["peers"])

\* C19: an upgrade of an installed node completes and keeps the stored
\* membership and endpoint when there is no cluster relation; with a cluster
\* relation it announces the node's identity in its own slot and stores the
\* membership rebuilt from the relation, and when that is the membership
\* already stored it restarts nothing and the endpoint and the snap
\* configuration stay
C19_UpgradeKeepsState ==
    [][ (last'.step = "upgrade_charm" /\ Installed) =>
           /\ last'.err = ""
           /\ state'["endpoint"] # None
           /\ clusterRel = None =>
                  /\ state' = state
                  /\ snapConf' = snapConf
                  /\ Count(calls', "snap restart") = 0
           /\ clusterRel # None =>
                  /\ FieldIs(clusterRel'[1].data[unitName], "peer_identity",
                             GetPeerIdentity(unitName, LocalAddress).val)
                  /\ state'["peers"] = <<SelfEntry>> \o Announced(clusterRel[1])
                  /\ state["peers"] = <<SelfEntry>> \o Announced(clusterRel[1]) =>
                         /\ Count(calls', "snap restart") = 0
                         /\ state'["endpoint"] = state["endpoint"]
                         /\ snapConf' = snapConf
      ]_vars

\* an upgrade of a node holding a membership of three has run the snap
\* install and refresh only, and the node's identity is announced
C19_Witness ==
    /\ last.step = "upgrade_charm"
    /\ last.err = ""
    /\ calls = <<"snap install", "snap refresh">>
    /\ Len(state["peers"]) = 3
    /\ "peer_identity" \in DOMAIN clusterRel[1].data[unitName]

ConnectionFields == {"connection_string", "version"}

CredentialFields == {"client_key", "client_cert", "client_ca"}

OwnFields(rel, keys) ==
    [k \in (DOMAIN rel.data[unitName]) \cap keys |-> rel.data[unitName][k]]

\* the step writes the fields keys, and nothing else, in the node's slot of
\* every db relation, with the same values on all of them
WritesOnly(keys) ==
    /\ Len(dbRels') = Len(dbRels)
    /\ \A i \in 1..Len(dbRels) :
           /\ DOMAIN dbRels'[i].data[unitName] = (DOMAIN dbRels[i].data[unitName]) \cup keys
           /\ OwnFields(dbRels'[i], (DOMAIN dbRels[i].data[unitName]) \ keys)
                  = OwnFields(dbRels[i], (DOMAIN dbRels[i].data[unitName]) \ keys)
           /\ OwnFields(dbRels'[i], keys) = OwnFields(dbRels'[1], keys)
           /\ RemoteBags(dbRels'[i]) = RemoteBags(dbRels[i])
           /\ dbRels'[i].units = dbRels[i].units

\* C20: a consumer trigger writes connection_string and version and leaves
\* the client_* fields; a credentials-changed run with credentials readable
\* writes client_key, client_cert and client_ca and leaves connection_string
\* and version; either way every db relation ends with the same values in
\* the fields written
C20_WritesOwnFieldsOnly ==
    [][ /\ (last'.step = "db_relation_changed" /\ last'.err = "") =>
               WritesOnly(ConnectionFields)
        /\ (/\ last'.step = "certificates_relation_changed"
            /\ last'.err = ""
            /\ CredentialsReadable) =>
               /\ WritesOnly(CredentialFields)
               /\ \A i \in 1..Len(dbRels) :
                      dbRels'[i].data[unitName]["client_ca"] = RootCaCert(certRels)[1]
      ]_vars

\* two consumers hold the connection string of the second one's trigger and
\* the credentials with the root CA "CA-B"
C20_Witness ==
    /\ last.step = "certificates_relation_changed"
    /\ last.err = ""
    /\ Len(dbRels) = 2
    /\ \A i \in 1..2 :
           /\ FieldIs(dbRels[i].data[unitName], "connection_string",
                      "http://10.0.2.100:2379")
           /\ FieldIs(dbRels[i].data[unitName], "client_ca", "CA-B")
           /\ FieldIs(dbRels[i].data[unitName], "client_key", "KEY")

====
